---------------------------- MODULE Spec2Model ----------------------------
(***************************************************************************)
(* Model of .github/scripts/update_orcid.py: fetch ORCID works, extract    *)
(* records, drop duplicate titles, render two Markdown sections and splice *)
(* them between sentinel markers of README.md.                             *)
(*                                                                         *)
(* Text is a sequence of tokens.  A token is one character, or an atomic   *)
(* chunk of characters that the program only ever copies or compares as a  *)
(* whole (a marker, a heading, a type name).                               *)
(***************************************************************************)
EXTENDS Integers, Sequences, FiniteSets, TLC

VARIABLES
    pc,                     \* position of main(): start/fetched/generated/exited
    run,                    \* which invocation of the script this is
    orcid,                  \* what the ORCID endpoint serves (environment)
    works_data,             \* main: the fetched payload
    publications_content,   \* main: first rendered section
    software_content,       \* main: second rendered section
    readme,                 \* README.md on disk: NoFile or its text
    readme_before,          \* README.md as it was when this run started
    new_readme,             \* update_readme: the text it computed
    outcome,                \* which path the run took
    prev_outcome,           \* the path the previous run took
    prev_contents,          \* the two sections the previous run rendered
    exit_code,              \* None until sys.exit, then Some(code)
    writes,                 \* number of times this run stored text in README.md
    section_records,        \* generate_publications_markdown: its two sorted lists
    work,                   \* extract_publication_info: its argument
    pub_info,               \* extract_publication_info: its result
    line,                   \* format_publication: its result
    publications,           \* filter_duplicate_publications: its argument
    unique_pubs             \* filter_duplicate_publications: its result

vars == <<pc, run, orcid, works_data, publications_content, software_content,
          readme, readme_before, new_readme, outcome, prev_outcome,
          prev_contents, exit_code, writes, section_records, work, pub_info,
          line, publications, unique_pubs>>

mainVars == <<run, orcid, works_data, publications_content, software_content,
              readme, readme_before, new_readme, outcome, prev_outcome,
              prev_contents, exit_code, writes, section_records>>

(***************************************************************************)
(* Python values.  None is the empty tuple and a present value v is <<v>>, *)
(* so that an optional integer stays comparable.                           *)
(***************************************************************************)
None == <<>>
Some(v) == <<v>>

(* JSON values as the json module hands them to the script. *)
JNull == [k |-> "null"]
JStr(s) == [k |-> "str", s |-> s]
JNum(n) == [k |-> "num", n |-> n]
JArr(a) == [k |-> "arr", a |-> a]
JObj(f) == [k |-> "obj", f |-> f]
EmptyDict == JObj(<<>>)

(* Python truth value of a JSON value: `if x`, `not x`, `x or y`. *)
Truthy(j) ==
    CASE j.k = "null" -> FALSE
      [] j.k = "str" -> j.s # <<>>
      [] j.k = "num" -> j.n # 0
      [] j.k = "arr" -> j.a # <<>>
      [] j.k = "obj" -> DOMAIN j.f # {}

(* dict.get(key, default) on a JSON object. *)
DictGet(d, key, default) ==
    IF key \in DOMAIN d.f THEN d.f[key] ELSE default

(* The outcome of a block of code: a returned value or a raised exception. *)
Ret(v) == [tag |-> "return", val |-> v]
Raise(e) == [tag |-> "raise", exc |-> e]

(***************************************************************************)
(* Characters.                                                             *)
(***************************************************************************)
IsSpace(c) == c \in {" ", "\t", "\n"}
Digits == <<"0", "1", "2", "3", "4", "5", "6", "7", "8", "9">>
IsDigit(c) == \E i \in DOMAIN Digits : Digits[i] = c
DigitVal(c) == (CHOOSE i \in DOMAIN Digits : Digits[i] = c) - 1

(* str.lower() of one token. *)
LowerTok(c) ==
    CASE c = "JOURNAL-ARTICLE" -> "journal-article"
      [] c = "Conference-Paper" -> "conference-paper"
      [] c = "Software" -> "software"
      [] c = "RESEARCH-TOOL" -> "research-tool"
      [] c = "BOOK" -> "book"
      [] c = "A" -> "a"
      [] c = "B" -> "b"
      [] c = "F" -> "f"
      [] OTHER -> c

(* str.lower() *)
Lower(s) == [i \in DOMAIN s |-> LowerTok(s[i])]

RECURSIVE LStrip(_)
LStrip(s) == IF s # <<>> /\ IsSpace(Head(s)) THEN LStrip(Tail(s)) ELSE s

RECURSIVE RStrip(_)
RStrip(s) ==
    IF s # <<>> /\ IsSpace(s[Len(s)]) THEN RStrip(SubSeq(s, 1, Len(s) - 1)) ELSE s

(* str.strip() left out: the text as it is. *)
StripNothing(s) == s

(* str.strip() *)
Strip(s) == RStrip(LStrip(s))

RECURSIVE DigitsValue(_)
DigitsValue(s) ==
    IF s = <<>> THEN 0
    ELSE 10 * DigitsValue(SubSeq(s, 1, Len(s) - 1)) + DigitVal(s[Len(s)])

(* int(text): Some(n), or None where Python raises ValueError. *)
ParseInt(s) ==
    LET t == Strip(s)
        signed == t # <<>> /\ Head(t) \in {"+", "-"}
        d == IF signed THEN Tail(t) ELSE t
    IN  IF d = <<>> \/ \E i \in DOMAIN d : ~IsDigit(d[i]) THEN None
        ELSE IF signed /\ Head(t) = "-" THEN Some(0 - DigitsValue(d))
        ELSE Some(DigitsValue(d))

(***************************************************************************)
(* Configuration (update_orcid.py lines 20-29).                            *)
(***************************************************************************)
PUBLICATIONS_START_MARKER == "<!-- ORCID-PUBLICATIONS:START -->"
PUBLICATIONS_END_MARKER == "<!-- ORCID-PUBLICATIONS:END -->"
SOFTWARE_START_MARKER == "<!-- ORCID-SOFTWARE:START -->"
SOFTWARE_END_MARKER == "<!-- ORCID-SOFTWARE:END -->"

PUBLICATION_TYPES == {<<"journal-article">>, <<"conference-paper">>}
SOFTWARE_TYPES == {<<"software">>, <<"research-tool">>}
ACCEPTED_TYPES == PUBLICATION_TYPES \cup SOFTWARE_TYPES

(***************************************************************************)
(* extract_publication_info (lines 55-107).                                *)
(***************************************************************************)

(* Lines 79-88: the year, Ret(None or Some(n)), or the exception raised. *)
ExtractYear(w) ==
    LET pub_date == DictGet(w, "publication-date", JNull) IN
    IF ~Truthy(pub_date) THEN Ret(None)
    ELSE IF pub_date.k # "obj" THEN Raise("AttributeError")
    ELSE LET y == DictGet(pub_date, "year", JNull) IN
    IF ~Truthy(y) THEN Ret(None)
    ELSE IF y.k # "obj" THEN Raise("AttributeError")
    ELSE LET year_value == DictGet(y, "value", JNull) IN
    IF ~Truthy(year_value) THEN Ret(None)
    ELSE IF year_value.k = "str" THEN Ret(ParseInt(year_value.s))
    ELSE IF year_value.k = "num" THEN Ret(Some(year_value.n))
    ELSE Ret(None)

(* Lines 93-97: the loop over external_ids, doi being the value so far. *)
RECURSIVE ScanExternalIds(_, _)
ScanExternalIds(ids, doi) ==
    IF ids = <<>> THEN Ret(doi)
    ELSE LET ext_id == Head(ids) IN
         IF ext_id.k # "obj" THEN Raise("AttributeError")
         ELSE IF LET t == DictGet(ext_id, "external-id-type", JNull)
                 IN  t.k = "str" /\ t.s = <<"doi">>
         THEN LET v == DictGet(ext_id, "external-id-value", JNull) IN
              IF Truthy(v) THEN Ret(v) ELSE ScanExternalIds(Tail(ids), v)
         ELSE ScanExternalIds(Tail(ids), doi)

(* Lines 90-97: the DOI, a JSON value (JNull for None), or the exception. *)
ExtractDoi(w) ==
    LET ext == DictGet(w, "external-ids", EmptyDict) IN
    IF ext.k # "obj" THEN Raise("AttributeError")
    ELSE LET external_ids == DictGet(ext, "external-id", JArr(<<>>)) IN
    IF external_ids.k = "arr" THEN ScanExternalIds(external_ids.a, JNull)
    ELSE IF external_ids.k = "obj" /\ DOMAIN external_ids.f = {} THEN Ret(JNull)
    ELSE IF external_ids.k = "str" /\ external_ids.s = <<>> THEN Ret(JNull)
    ELSE IF external_ids.k \in {"obj", "str"} THEN Raise("AttributeError")
    ELSE Raise("TypeError")

(* Lines 66-104: the body of the try block. *)
ExtractBody(w) ==
    IF w.k # "obj" THEN Raise("AttributeError")
    ELSE LET work_type == DictGet(w, "type", JNull) IN
    IF ~Truthy(work_type) THEN Ret(None)
    ELSE IF work_type.k # "str" THEN Raise("AttributeError")
    ELSE IF Lower(work_type.s) \notin ACCEPTED_TYPES THEN Ret(None)
    ELSE LET title_obj == DictGet(w, "title", JNull) IN
    IF ~Truthy(title_obj) THEN Ret(None)
    ELSE IF title_obj.k # "obj" THEN Raise("AttributeError")
    ELSE LET inner == DictGet(title_obj, "title", JNull) IN
    IF ~Truthy(inner) THEN Ret(None)
    ELSE IF inner.k # "obj" THEN Raise("AttributeError")
    ELSE LET value == DictGet(inner, "value", JStr(<<>>)) IN
    IF value.k # "str" THEN Raise("AttributeError")
    ELSE LET title == Strip(value.s) IN
    IF title = <<>> THEN Ret(None)
    ELSE LET year == ExtractYear(w) IN
    IF year.tag = "raise" THEN year
    ELSE LET doi == ExtractDoi(w) IN
    IF doi.tag = "raise" THEN doi
    ELSE Ret(Some([title |-> title, year |-> year.val, doi |-> doi.val,
                   type |-> work_type.s]))

(* Lines 105-107: the exceptions the function turns into a warning. *)
CaughtByExtract == {"KeyError", "TypeError", "AttributeError"}

(* The function: None, or Some(record). *)
extract_publication_info(w) ==
    LET r == ExtractBody(w) IN
    IF r.tag = "raise" /\ r.exc \in CaughtByExtract THEN None ELSE r.val

(* Whether the call printed the warning of line 106. *)
ExtractWarns(w) == ExtractBody(w).tag = "raise"

(***************************************************************************)
(* format_publication (lines 110-129).  The dash of the source and the     *)
(* symbols before the headings are carried inside atomic tokens.           *)
(***************************************************************************)

(* str() of a value an f-string interpolates. *)
PyStrYear(y) == IF y = None THEN <<"None">> ELSE <<ToString(y[1])>>
PyStrJson(j) ==
    CASE j.k = "str" -> j.s
      [] j.k = "num" -> <<ToString(j.n)>>
      [] OTHER -> <<"None">>

format_publication(pub) ==
    LET year == IF "year" \in DOMAIN pub THEN PyStrYear(pub.year) ELSE <<"N/A">>
        title == pub.title
        doi == IF "doi" \in DOMAIN pub THEN pub.doi ELSE JNull
    IN  IF Truthy(doi)
        THEN <<"- **">> \o year \o <<"** - [">> \o title
               \o <<"](https://doi.org/">> \o PyStrJson(doi) \o <<")">>
        ELSE <<"- **">> \o year \o <<"** - ">> \o title

(***************************************************************************)
(* filter_duplicate_publications (lines 132-168).  unique_pubs is a dict,  *)
(* which keeps its keys in insertion order: here the sequence of its       *)
(* values, one per title.                                                  *)
(***************************************************************************)
IndexOfTitle(unique, title) ==
    IF \E i \in DOMAIN unique : unique[i].title = title
    THEN CHOOSE i \in DOMAIN unique : unique[i].title = title
    ELSE 0

(* Lines 161-165 with >= for >: a record of the same year replaces too. *)
ReplacesOnTie(current_year, existing_year) ==
    \/ current_year # None /\ existing_year = None
    \/ current_year # None /\ existing_year # None
         /\ current_year[1] >= existing_year[1]

(* Lines 161-165: whether the current record replaces the existing one. *)
Replaces(current_year, existing_year) ==
    \/ current_year # None /\ existing_year = None
    \/ current_year # None /\ existing_year # None
         /\ current_year[1] > existing_year[1]

(* Lines 147-165: one iteration of the loop. *)
FilterStep(unique, pub) ==
    LET title == IF "title" \in DOMAIN pub THEN pub.title ELSE <<>> IN
    IF title = <<>> THEN unique
    ELSE LET i == IndexOfTitle(unique, title) IN
         IF i = 0 THEN Append(unique, pub)
         ELSE IF Replaces(pub.year, unique[i].year)
              THEN [unique EXCEPT ![i] = pub]
              ELSE unique

RECURSIVE FilterLoop(_, _)
FilterLoop(unique, pubs) ==
    IF pubs = <<>> THEN unique
    ELSE FilterLoop(FilterStep(unique, Head(pubs)), Tail(pubs))

filter_duplicate_publications(pubs) == FilterLoop(<<>>, pubs)

(***************************************************************************)
(* generate_publications_markdown (lines 171-219).                         *)
(***************************************************************************)

(* Lines 200-201: key=lambda x: x.get("year") or 0 *)
SortKey(x) == IF x.year = None \/ x.year[1] = 0 THEN 0 ELSE x.year[1]

(* list.sort(key=..., reverse=True) is stable: records of equal key keep   *)
(* their order.  Insert x behind every record whose key is not smaller.    *)
RECURSIVE InsertDesc(_, _)
InsertDesc(sorted, x) ==
    IF sorted = <<>> THEN <<x>>
    ELSE IF SortKey(Head(sorted)) >= SortKey(x)
         THEN <<Head(sorted)>> \o InsertDesc(Tail(sorted), x)
         ELSE <<x>> \o sorted

RECURSIVE SortLoop(_, _)
SortLoop(sorted, rest) ==
    IF rest = <<>> THEN sorted
    ELSE SortLoop(InsertDesc(sorted, Head(rest)), Tail(rest))

SortByYear(records) == SortLoop(<<>>, records)

(* "\n".join(lines) *)
RECURSIVE JoinLines(_)
JoinLines(lines) ==
    IF lines = <<>> THEN <<>>
    ELSE IF Len(lines) = 1 THEN Head(lines)
    ELSE Head(lines) \o <<"\n">> \o JoinLines(Tail(lines))

(* Lines 184-190: the records of every work of every group, in order. *)
RECURSIVE ExtractAll(_)
ExtractAll(works) ==
    IF works = <<>> THEN <<>>
    ELSE extract_publication_info(Head(works)) \o ExtractAll(Tail(works))

RECURSIVE ExtractGroups(_)
ExtractGroups(groups) ==
    IF groups = <<>> THEN <<>>
    ELSE ExtractAll(DictGet(Head(groups), "work-summary", JArr(<<>>)).a)
           \o ExtractGroups(Tail(groups))

SelectType(records, types) == SelectSeq(records, LAMBDA w : w.type \in types)

(* Lines 192-201: the records of each section, in the order rendered. *)
SectionRecords(data) ==
    LET all_works == filter_duplicate_publications(
                        ExtractGroups(DictGet(data, "group", JArr(<<>>)).a))
    IN  [publications |-> SortByYear(SelectType(all_works, PUBLICATION_TYPES)),
         software |-> SortByYear(SelectType(all_works, SOFTWARE_TYPES))]

FormatAll(records) == [i \in DOMAIN records |-> format_publication(records[i])]

(* Lines 203-219: heading, blank line, then the list lines or a placeholder. *)
RenderSection(heading, records, placeholder) ==
    JoinLines(<<heading, <<>>>>
              \o (IF records # <<>> THEN FormatAll(records) ELSE <<placeholder>>))

generate_publications_markdown(data) ==
    LET s == SectionRecords(data) IN
    <<RenderSection(<<"Publications">>, s.publications,
                    <<"*No publications found*">>),
      RenderSection(<<"Software & Tools">>, s.software,
                    <<"*No software found*">>)>>


(***************************************************************************)
(* update_readme (lines 222-286).                                          *)
(***************************************************************************)

(* `marker in content` *)
Contains(text, marker) == \E i \in DOMAIN text : text[i] = marker

(* First position at or after `from` holding `marker`, 0 if there is none. *)
Find(text, marker, from) ==
    IF \E i \in from..Len(text) : text[i] = marker
    THEN CHOOSE i \in from..Len(text) :
            /\ text[i] = marker
            /\ \A j \in from..(i - 1) : text[j] # marker
    ELSE 0

(* pattern.sub treats its replacement as a template: a backslash starts an *)
(* escape.  \n, \t and \\ stand for one character, a backslash before any  *)
(* other ASCII letter is rejected with re.error, and a backslash before    *)
(* anything else stays.  (No text of the model puts a digit or a `g`       *)
(* behind a backslash.)                                                    *)
BadEscapeLetters == {"A", "B", "F", "o", "q"}

RECURSIVE ExpandTemplate(_)
ExpandTemplate(t) ==
    IF t = <<>> THEN Ret(<<>>)
    ELSE IF Head(t) = "\\" /\ Len(t) >= 2 /\ t[2] \in {"n", "t", "\\"}
    THEN LET rest == ExpandTemplate(SubSeq(t, 3, Len(t)))
             c == CASE t[2] = "n" -> "\n" [] t[2] = "t" -> "\t" [] OTHER -> "\\"
         IN  IF rest.tag = "raise" THEN rest ELSE Ret(<<c>> \o rest.val)
    ELSE IF Head(t) = "\\" /\ (Len(t) = 1 \/ t[2] \in BadEscapeLetters)
    THEN Raise("re.error")
    ELSE LET rest == ExpandTemplate(Tail(t)) IN
         IF rest.tag = "raise" THEN rest ELSE Ret(<<Head(t)>> \o rest.val)

(* The matches of  start.*?end  (DOTALL), leftmost first and not           *)
(* overlapping, each replaced by `section` (count is left at "all").       *)
RECURSIVE SubAll(_, _, _, _)
SubAll(text, start, end, section) ==
    LET i == Find(text, start, 1)
        j == IF i = 0 THEN 0 ELSE Find(text, end, i + 1)
    IN  IF j = 0 THEN text
        ELSE SubSeq(text, 1, i - 1) \o section
               \o SubAll(SubSeq(text, j + 1, Len(text)), start, end, section)

(* pattern.sub(repl, content): the new text, or the exception raised. *)
ReSub(start, end, repl, content) ==
    LET t == ExpandTemplate(repl) IN
    IF t.tag = "raise" THEN t ELSE Ret(SubAll(content, start, end, t.val))

(* Lines 242-245. *)
HasMarkers(content) ==
    /\ Contains(content, PUBLICATIONS_START_MARKER)
    /\ Contains(content, PUBLICATIONS_END_MARKER)
    /\ Contains(content, SOFTWARE_START_MARKER)
    /\ Contains(content, SOFTWARE_END_MARKER)

(* Lines 253-267: new_readme, or the exception raised. *)
SpliceSections(content, pubs, soft) ==
    LET pub_section == <<PUBLICATIONS_START_MARKER, "\n">> \o pubs
                         \o <<"\n", PUBLICATIONS_END_MARKER>>
        soft_section == <<SOFTWARE_START_MARKER, "\n">> \o soft
                          \o <<"\n", SOFTWARE_END_MARKER>>
        first == ReSub(PUBLICATIONS_START_MARKER, PUBLICATIONS_END_MARKER,
                       pub_section, content)
    IN  IF first.tag = "raise" THEN first
        ELSE ReSub(SOFTWARE_START_MARKER, SOFTWARE_END_MARKER, soft_section,
                   first.val)


(***************************************************************************)
(* Inputs.                                                                 *)
(***************************************************************************)
MaxGroups == 2
MaxPubs == 3
MaxRuns == 2

(* A dict entry that may be absent: opt is None or Some(value). *)
Entry(key, opt) == IF opt = None THEN <<>> ELSE key :> opt[1]

TitleJson(value) == JObj("title" :> JObj("value" :> value))
YearJson(value) == JObj("year" :> JObj("value" :> value))
ExternalId(type, value) ==
    JObj(("external-id-type" :> JStr(type)) @@ ("external-id-value" :> value))
ExternalIds(ids) == JObj("external-id" :> JArr(ids))

MkWork(type, title, date, ext) ==
    JObj(Entry("type", type) @@ Entry("title", title)
           @@ Entry("publication-date", date) @@ Entry("external-ids", ext))

Doi1 == JStr(<<"10.1/abc">>)
Doi2 == JStr(<<"10.2/x">>)
Y2021 == <<"2", "0", "2", "1">>

(* The shapes one field of a work entry takes in a payload. *)
TypeShapes ==
    {None, Some(JNull), Some(JStr(<<>>)), Some(JNum(7)),
     Some(JStr(<<"journal-article">>)), Some(JStr(<<"Conference-Paper">>)),
     Some(JStr(<<"Software">>)), Some(JStr(<<"research-tool">>)),
     Some(JStr(<<"book">>))}

TitleShapes ==
    {None, Some(JNull), Some(EmptyDict), Some(JStr(<<"F">>)),
     Some(JObj("title" :> JNull)), Some(JObj("title" :> JObj("lang" :> JNull))),
     Some(TitleJson(JNull)), Some(TitleJson(JStr(<<" ", " ">>))),
     Some(TitleJson(JStr(<<" ", "F", "o", "o", " ">>))),
     Some(TitleJson(JStr(<<"B">>)))}

DateShapes ==
    {None, Some(JNull), Some(EmptyDict), Some(JStr(Y2021)),
     Some(JObj("year" :> JNull)), Some(YearJson(JNull)),
     Some(YearJson(JStr(Y2021))), Some(YearJson(JStr(<<" ", "2", "0", "2", "1">>))),
     Some(YearJson(JStr(<<"a", "b", "c">>))), Some(YearJson(JStr(<<"-", "1">>))),
     Some(YearJson(JStr(<<"0">>))), Some(YearJson(JNum(2020))),
     Some(YearJson(JNum(0)))}

ExternalIdsShapes ==
    {None, Some(JNull), Some(EmptyDict), Some(ExternalIds(<<>>)),
     Some(JObj("external-id" :> JNull)),
     Some(ExternalIds(<<ExternalId(<<"doi">>, Doi1)>>)),
     Some(ExternalIds(<<ExternalId(<<"eid">>, JStr(<<"x">>)),
                        ExternalId(<<"doi">>, Doi1)>>)),
     Some(ExternalIds(<<ExternalId(<<"doi">>, JStr(<<>>)),
                        ExternalId(<<"doi">>, Doi2)>>)),
     Some(ExternalIds(<<ExternalId(<<"doi">>, JStr(<<>>))>>)),
     Some(ExternalIds(<<ExternalId(<<"doi">>, JNull),
                        ExternalId(<<"eid">>, JStr(<<"x">>))>>))}

(* The work entries extract_publication_info is applied to on its own. *)
Works ==
    {MkWork(t, ti, d, e) : t \in TypeShapes, ti \in TitleShapes,
                           d \in DateShapes, e \in ExternalIdsShapes}

(* The work entries of the payloads main() is run on. *)
MainWorks ==
    {MkWork(Some(JStr(t)), Some(TitleJson(JStr(ti))), d,
            IF ti = <<"B">> THEN Some(ExternalIds(<<ExternalId(<<"doi">>, Doi1)>>))
            ELSE None) :
        t \in {<<"journal-article">>, <<"JOURNAL-ARTICLE">>, <<"software">>},
        ti \in {<<"A">>, <<"B">>, <<PUBLICATIONS_END_MARKER>>, <<"\\", "n">>,
                <<"\\", "q">>},
        d \in {None, Some(YearJson(JStr(Y2021))), Some(YearJson(JStr(<<"-", "1">>)))}}

SeqsUpTo(S, n) == UNION {[1..m -> S] : m \in 0..n}

Group(w) == JObj("work-summary" :> JArr(<<w>>))
Payload(ws) == JObj("group" :> JArr([i \in DOMAIN ws |-> Group(ws[i])]))
Payloads == {Payload(ws) : ws \in SeqsUpTo(MainWorks, MaxGroups)}

PS == PUBLICATIONS_START_MARKER
PE == PUBLICATIONS_END_MARKER
SS == SOFTWARE_START_MARKER
SE == SOFTWARE_END_MARKER

(* README.md before the first run: absent (None) or Some(text). *)
Readmes ==
    {None,
     Some(<<"#", "\n">>),
     Some(<<PS, "\n", PE, "\n", SS, "\n">>),
     Some(<<"#", "\n", PS, "o", PE, "\n", SS, SE, "\n">>),
     Some(<<PS, PE, "\n", PS, "o", PE, SS, SE>>),
     Some(<<PS, PE, PE, SS, SE, SE>>)}

(* The records filter_duplicate_publications is applied to on its own. *)
Records ==
    [title : {<<"A">>, <<"B">>}, year : {None, Some(0), Some(2020), Some(2022)},
     doi : {JNull, Doi1}, type : {<<"journal-article">>}]

NoSections == [publications |-> <<>>, software |-> <<>>]

MainIdle ==
    /\ run = 0 /\ orcid = JNull /\ works_data = JNull
    /\ publications_content = <<>> /\ software_content = <<>>
    /\ readme = None /\ readme_before = None /\ new_readme = <<>>
    /\ outcome = "none" /\ prev_outcome = "none" /\ prev_contents = <<>>
    /\ exit_code = None /\ writes = 0 /\ section_records = NoSections

ExtractIdle == work = JNull /\ pub_info = None /\ line = <<>>
FilterIdle == publications = <<>> /\ unique_pubs = <<>>

(***************************************************************************)
(* main() (lines 289-310), run up to MaxRuns times on the same README.md   *)
(* against an endpoint that serves the same works.                         *)
(***************************************************************************)
Init ==
    /\ pc = "start" /\ run = 1
    /\ orcid \in Payloads /\ works_data = JNull
    /\ publications_content = <<>> /\ software_content = <<>>
    /\ section_records = NoSections
    /\ readme \in Readmes /\ readme_before = readme /\ new_readme = <<>>
    /\ outcome = "running" /\ prev_outcome = "none" /\ prev_contents = <<>>
    /\ exit_code = None /\ writes = 0
    /\ ExtractIdle /\ FilterIdle

pureVars == <<work, pub_info, line, publications, unique_pubs>>

(* sys.exit(code) at the end of the path named `how`. *)
Exit(how, code) ==
    /\ pc' = "exited" /\ outcome' = how /\ exit_code' = Some(code)

(* Line 293, the request succeeds. *)
FetchOk ==
    /\ pc = "start"
    /\ works_data' = orcid
    /\ pc' = "fetched"
    /\ UNCHANGED <<run, orcid, publications_content, software_content,
                   section_records, readme, readme_before, new_readme, outcome,
                   prev_outcome, prev_contents, exit_code, writes, pureVars>>

(* Lines 50-52 and 308-310: the request fails, main() exits with 1. *)
FetchFails ==
    /\ pc = "start"
    /\ Exit("fetch_failed", 1)
    /\ UNCHANGED <<run, orcid, works_data, publications_content,
                   software_content, section_records, readme, readme_before,
                   new_readme, prev_outcome, prev_contents, writes, pureVars>>

(* Line 296. *)
Generate ==
    /\ pc = "fetched"
    /\ section_records' = SectionRecords(works_data)
    /\ publications_content' = generate_publications_markdown(works_data)[1]
    /\ software_content' = generate_publications_markdown(works_data)[2]
    /\ pc' = "generated"
    /\ UNCHANGED <<run, orcid, works_data, readme, readme_before, new_readme,
                   outcome, prev_outcome, prev_contents, exit_code, writes,
                   pureVars>>

updateFrame == <<run, orcid, works_data, publications_content, software_content,
                 section_records, readme_before, prev_outcome, prev_contents,
                 pureVars>>

(* Lines 234-239: no README.md; update_readme returns False, main exits 0. *)
UpdateNotFound ==
    /\ pc = "generated" /\ readme = None
    /\ Exit("not_found", 0)
    /\ UNCHANGED <<readme, new_readme, writes, updateFrame>>

(* Lines 247-251: a marker is absent; returns False, main exits 0. *)
UpdateMissingMarkers ==
    /\ pc = "generated" /\ readme # None /\ ~HasMarkers(readme[1])
    /\ Exit("missing_markers", 0)
    /\ UNCHANGED <<readme, new_readme, writes, updateFrame>>

Spliced == SpliceSections(readme[1], publications_content, software_content)

(* Lines 259/267 raise re.error, which main() turns into exit code 1. *)
UpdateTemplateError ==
    /\ pc = "generated" /\ readme # None /\ HasMarkers(readme[1])
    /\ Spliced.tag = "raise"
    /\ Exit("template_error", 1)
    /\ UNCHANGED <<readme, new_readme, writes, updateFrame>>

(* Lines 274-276: the text is what the file holds; returns False. *)
UpdateNoChange ==
    /\ pc = "generated" /\ readme # None /\ HasMarkers(readme[1])
    /\ Spliced.tag = "return" /\ Spliced.val = readme[1]
    /\ new_readme' = Spliced.val
    /\ Exit("no_change", 0)
    /\ UNCHANGED <<readme, writes, updateFrame>>

(* Lines 279-283: the text is stored; returns True. *)
UpdateWritten ==
    /\ pc = "generated" /\ readme # None /\ HasMarkers(readme[1])
    /\ Spliced.tag = "return" /\ Spliced.val # readme[1]
    /\ new_readme' = Spliced.val
    /\ readme' = Some(Spliced.val)
    /\ writes' = writes + 1
    /\ Exit("written", 0)
    /\ UNCHANGED updateFrame

(* Lines 280, 284-286: open(..., "w") fails; the file is as it was. *)
UpdateOpenFails ==
    /\ pc = "generated" /\ readme # None /\ HasMarkers(readme[1])
    /\ Spliced.tag = "return" /\ Spliced.val # readme[1]
    /\ new_readme' = Spliced.val
    /\ Exit("write_failed", 0)
    /\ UNCHANGED <<readme, writes, updateFrame>>

(* Lines 280-281, 284-286: the file is opened, which empties it, and the   *)
(* write fails.                                                            *)
UpdateWriteFails ==
    /\ pc = "generated" /\ readme # None /\ HasMarkers(readme[1])
    /\ Spliced.tag = "return" /\ Spliced.val # readme[1]
    /\ new_readme' = Spliced.val
    /\ readme' = Some(<<>>)
    /\ Exit("write_failed", 0)
    /\ UNCHANGED <<writes, updateFrame>>

(* The script is started again (line 313). *)
Rerun ==
    /\ pc = "exited" /\ run < MaxRuns
    /\ run' = run + 1
    /\ pc' = "start"
    /\ prev_outcome' = outcome /\ outcome' = "running" /\ exit_code' = None
    /\ prev_contents' = <<publications_content, software_content>>
    /\ works_data' = JNull
    /\ publications_content' = <<>> /\ software_content' = <<>>
    /\ section_records' = NoSections
    /\ readme_before' = readme /\ new_readme' = <<>> /\ writes' = 0
    /\ UNCHANGED <<orcid, readme, pureVars>>

Next ==
    \/ FetchOk \/ FetchFails \/ Generate
    \/ UpdateNotFound \/ UpdateMissingMarkers \/ UpdateTemplateError
    \/ UpdateNoChange \/ UpdateWritten \/ UpdateOpenFails \/ UpdateWriteFails
    \/ Rerun

Spec == Init /\ [][Next]_vars

(***************************************************************************)
(* extract_publication_info and format_publication on one work entry.      *)
(***************************************************************************)
InitExtract ==
    /\ pc = "extract"
    /\ work \in Works /\ pub_info = None /\ line = <<>>
    /\ MainIdle /\ FilterIdle

ExtractCall ==
    /\ pc = "extract"
    /\ pub_info' = extract_publication_info(work)
    /\ pc' = "extracted"
    /\ UNCHANGED <<mainVars, work, line, publications, unique_pubs>>

FormatCall ==
    /\ pc = "extracted" /\ pub_info # None
    /\ line' = format_publication(pub_info[1])
    /\ pc' = "formatted"
    /\ UNCHANGED <<mainVars, work, pub_info, publications, unique_pubs>>

NextExtract == ExtractCall \/ FormatCall

SpecExtract == InitExtract /\ [][NextExtract]_vars

(***************************************************************************)
(* filter_duplicate_publications on one list of records.                   *)
(***************************************************************************)
InitFilter ==
    /\ pc = "filter"
    /\ publications \in SeqsUpTo(Records, MaxPubs) /\ unique_pubs = <<>>
    /\ MainIdle /\ ExtractIdle

FilterCall ==
    /\ pc = "filter"
    /\ unique_pubs' = filter_duplicate_publications(publications)
    /\ pc' = "filtered"
    /\ UNCHANGED <<mainVars, work, pub_info, line, publications>>

NextFilter == FilterCall

SpecFilter == InitFilter /\ [][NextFilter]_vars


(***************************************************************************)
(* Properties of main() and update_readme, under Spec.                     *)
(***************************************************************************)
Markers == {PUBLICATIONS_START_MARKER, PUBLICATIONS_END_MARKER,
            SOFTWARE_START_MARKER, SOFTWARE_END_MARKER}

ReachedUpdate == pc = "exited" /\ outcome # "fetch_failed"

(* C1: when README.md lacks at least one of the four markers, a run that   *)
(* reaches update_readme stores nothing in the file and ends with a        *)
(* non-zero exit code.                                                     *)
C1_MissingMarkersFatal ==
    (/\ ReachedUpdate
     /\ readme_before # None
     /\ \E m \in Markers : ~Contains(readme_before[1], m))
    => /\ writes = 0
       /\ readme = readme_before
       /\ exit_code # Some(0)

(* C2: the exit code is 0 exactly when the run ends with README.md written *)
(* or left unchanged after a successful splice; it is 1 when the request   *)
(* fails (and README.md is then untouched) and when saving the file fails. *)
(* "Only then 0" is stated for a README.md holding the four markers; the   *)
(* other files are the subject of C1.                                      *)
C2_ExitCodes ==
    pc = "exited" =>
        /\ outcome \in {"written", "no_change"} => exit_code = Some(0)
        /\ (/\ exit_code = Some(0)
            /\ readme_before # None
            /\ \A m \in Markers : Contains(readme_before[1], m))
           => outcome \in {"written", "no_change"}
        /\ outcome = "fetch_failed" =>
              exit_code = Some(1) /\ writes = 0 /\ readme = readme_before
        /\ outcome = "write_failed" => exit_code = Some(1)

(* Whether a list has every undated record behind every dated one and the  *)
(* dated ones in descending order of year.                                 *)
YearOrdered(records) ==
    \A i, j \in DOMAIN records :
        i < j =>
            /\ ~(records[i].year = None /\ records[j].year # None)
            /\ (records[i].year # None /\ records[j].year # None)
                  => records[i].year[1] >= records[j].year[1]

(* C4: in each rendered category the records without a year come after     *)
(* all records with a year, and the records with a year are in descending  *)
(* order of year.                                                          *)
C4_SortedByYear ==
    pc = "generated" =>
        /\ YearOrdered(section_records.publications)
        /\ YearOrdered(section_records.software)
        /\ publications_content
             = RenderSection(<<"Publications">>, section_records.publications,
                             <<"*No publications found*">>)
        /\ software_content
             = RenderSection(<<"Software & Tools">>, section_records.software,
                             <<"*No software found*">>)

(* The lines of a text. *)
RECURSIVE SplitLines(_)
SplitLines(text) ==
    LET i == Find(text, "\n", 1) IN
    IF i = 0 THEN <<text>>
    ELSE <<SubSeq(text, 1, i - 1)>> \o SplitLines(SubSeq(text, i + 1, Len(text)))

(* The records the Extractor accepts from the fetched payload. *)
AcceptedRecords ==
    LET recs == ExtractGroups(DictGet(works_data, "group", JArr(<<>>)).a)
    IN  {recs[i] : i \in DOMAIN recs}

(* How many lines of the two sections are the list line of a record with   *)
(* this title.                                                             *)
ListLineCount(title) ==
    LET lines == SplitLines(publications_content) \o SplitLines(software_content)
        mine == {format_publication(r) : r \in {a \in AcceptedRecords : a.title = title}}
    IN  Cardinality({i \in DOMAIN lines : lines[i] \in mine})

(* C7: every accepted record has a kind of the allow-list and belongs to   *)
(* exactly one of the two groups, so every title among the accepted        *)
(* records is exactly one list line of the two sections together.          *)
C7_OneLinePerTitle ==
    pc = "generated" =>
        \A r \in AcceptedRecords :
            /\ r.type \in ACCEPTED_TYPES
            /\ (r.type \in PUBLICATION_TYPES) # (r.type \in SOFTWARE_TYPES)
            /\ ListLineCount(r.title) = 1

(* The text in which only the first span from `start` to the next `end` is *)
(* replaced by `section`, taken literally.                                 *)
ReplaceFirstSpan(text, start, end, section) ==
    LET i == Find(text, start, 1)
        j == IF i = 0 THEN 0 ELSE Find(text, end, i + 1)
    IN  IF j = 0 THEN text
        ELSE SubSeq(text, 1, i - 1) \o section \o SubSeq(text, j + 1, Len(text))

FirstSpansReplaced(text, pubs, soft) ==
    ReplaceFirstSpan(
        ReplaceFirstSpan(text, PUBLICATIONS_START_MARKER, PUBLICATIONS_END_MARKER,
            <<PUBLICATIONS_START_MARKER, "\n">> \o pubs
                \o <<"\n", PUBLICATIONS_END_MARKER>>),
        SOFTWARE_START_MARKER, SOFTWARE_END_MARKER,
        <<SOFTWARE_START_MARKER, "\n">> \o soft \o <<"\n", SOFTWARE_END_MARKER>>)

(* C8: for a README.md holding all four markers, the text update_readme    *)
(* computes is the original with, for each marker pair, only the first     *)
(* span from the start marker to the next end marker replaced by           *)
(* start marker, newline, new content, newline, end marker; everything     *)
(* else, later occurrences of the markers included, is unchanged.          *)
C8_OnlyFirstSpanReplaced ==
    (pc = "exited" /\ outcome \in {"written", "no_change", "write_failed"})
    => new_readme = FirstSpansReplaced(readme_before[1], publications_content,
                                       software_content)

(* C9: a second run of update_readme with the contents of the first finds  *)
(* the text unchanged, reports no change and writes nothing, so the file   *)
(* is the file the first run left.                                         *)
C9_SecondRunUnchanged ==
    (/\ ReachedUpdate
     /\ run > 1
     /\ prev_outcome \in {"written", "no_change"}
     /\ prev_contents = <<publications_content, software_content>>)
    => /\ outcome = "no_change"
       /\ writes = 0
       /\ readme = readme_before


(***************************************************************************)
(* Properties of filter_duplicate_publications, under SpecFilter.          *)
(***************************************************************************)
TitlesOf(records) == {records[i].title : i \in DOMAIN records}

FirstIndexOf(records, title) ==
    CHOOSE i \in DOMAIN records :
        /\ records[i].title = title
        /\ \A j \in 1..(i - 1) : records[j].title # title

(* A missing year is lower than any year. *)
YearLeq(a, b) == a = None \/ (b # None /\ a[1] <= b[1])

(* The first record among those of the title whose year is greatest. *)
BestIndexOf(records, title) ==
    CHOOSE i \in DOMAIN records :
        /\ records[i].title = title
        /\ \A j \in DOMAIN records :
              records[j].title = title =>
                  /\ YearLeq(records[j].year, records[i].year)
                  /\ (j < i => records[j].year # records[i].year)

(* C3: filter_duplicate_publications returns one record per distinct       *)
(* title, in the order the titles first appear, and the record of a title  *)
(* is the one of greatest year, a missing year being lower than any year   *)
(* and the first-seen record winning a tie.                                *)
C3_OnePerTitleGreatestYear ==
    pc = "filtered" =>
        /\ TitlesOf(unique_pubs) = TitlesOf(publications)
        /\ Len(unique_pubs) = Cardinality(TitlesOf(publications))
        /\ \A i, j \in DOMAIN unique_pubs :
              i < j => FirstIndexOf(publications, unique_pubs[i].title)
                         < FirstIndexOf(publications, unique_pubs[j].title)
        /\ \A i \in DOMAIN unique_pubs :
              unique_pubs[i]
                = publications[BestIndexOf(publications, unique_pubs[i].title)]

(* C3's case: an undated record, another title, then a dated record of the *)
(* first title, which takes the first place of the result.                 *)
C3_Witness ==
    /\ pc = "filtered"
    /\ Len(publications) = 3
    /\ publications[1].title = publications[3].title
    /\ publications[2].title # publications[1].title
    /\ publications[1].year = None
    /\ publications[3].year = Some(2020)
    /\ unique_pubs = <<publications[3], publications[2]>>

(***************************************************************************)
(* Properties of extract_publication_info and format_publication, under    *)
(* SpecExtract.                                                            *)
(***************************************************************************)
Extracted == pc \in {"extracted", "formatted"}

HasStr(d, key) == key \in DOMAIN d.f /\ d.f[key].k = "str"
HasObj(d, key) == key \in DOMAIN d.f /\ d.f[key].k = "obj"

AcceptedSet == {<<"journal-article">>, <<"conference-paper">>,
                <<"software">>, <<"research-tool">>}

(* The entry's type is a string which, in lower case, is an accepted type. *)
TypeAccepted(w) == HasStr(w, "type") /\ Lower(w.f["type"].s) \in AcceptedSet

(* The entry's type is literally one of the four accepted types. *)
TypeInAcceptedSet(w) == HasStr(w, "type") /\ w.f["type"].s \in AcceptedSet

(* The entry has a title with a character that is not white space. *)
TitlePresent(w) ==
    /\ HasObj(w, "title")
    /\ HasObj(w.f["title"], "title")
    /\ HasStr(w.f["title"].f["title"], "value")
    /\ \E i \in DOMAIN w.f["title"].f["title"].f["value"].s :
          ~IsSpace(w.f["title"].f["title"].f["value"].s[i])

(* C6, as the claim states it: no record when the type is missing or not   *)
(* one of journal-article, conference-paper, software, research-tool, and  *)
(* none when the title is missing or empty after trimming.                 *)
C6_RejectsOutsideAcceptedSet ==
    (Extracted /\ (~TypeInAcceptedSet(work) \/ ~TitlePresent(work)))
    => pub_info = None

(* C6, amended: no record when the type is missing or, in lower case, not  *)
(* in the accepted set, and none when the title is missing or empty after  *)
(* trimming.                                                               *)
C6_RejectsUnacceptedTypeOrTitle ==
    (Extracted /\ (~TypeAccepted(work) \/ ~TitlePresent(work)))
    => pub_info = None

(* C6's case: an entry of type book with a title yields no record. *)
C6_Witness ==
    /\ pc = "extracted"
    /\ HasStr(work, "type") /\ work.f["type"].s = <<"book">>
    /\ TitlePresent(work)
    /\ pub_info = None

(* The list line the claim describes. *)
ClaimedLine(pub) ==
    LET year == IF pub.year = None THEN <<"N/A">> ELSE <<ToString(pub.year[1])>>
        linked == pub.doi.k = "str" /\ pub.doi.s # <<>>
    IN  IF linked
        THEN <<"- **">> \o year \o <<"** - [">> \o pub.title
               \o <<"](https://doi.org/">> \o pub.doi.s \o <<")">>
        ELSE <<"- **">> \o year \o <<"** - ">> \o pub.title

(* C5: format_publication renders the year, or "N/A" when the record has   *)
(* none, and the title as a link to https://doi.org/{identifier} exactly   *)
(* when the record has a non-empty identifier.                             *)
C5_LineShowsYearOrNA ==
    pc = "formatted" => line = ClaimedLine(pub_info[1])

(* The publication date or its year is missing, null or not a number. *)
DateUnusable(w) ==
    \/ "publication-date" \notin DOMAIN w.f
    \/ w.f["publication-date"].k = "null"
    \/ /\ w.f["publication-date"].k = "obj"
       /\ \/ "year" \notin DOMAIN w.f["publication-date"].f
          \/ w.f["publication-date"].f["year"].k = "null"
          \/ /\ w.f["publication-date"].f["year"].k = "obj"
             /\ LET v == DictGet(w.f["publication-date"].f["year"], "value", JNull)
                IN  v.k = "null" \/ (v.k = "str" /\ ParseInt(v.s) = None)

(* external-ids is missing, null or holds no entry typed doi. *)
NoDoiEntry(w) ==
    \/ "external-ids" \notin DOMAIN w.f
    \/ w.f["external-ids"].k = "null"
    \/ /\ w.f["external-ids"].k = "obj"
       /\ LET ids == DictGet(w.f["external-ids"], "external-id", JArr(<<>>)) IN
          /\ ids.k = "arr"
          /\ \A i \in DOMAIN ids.a :
                ~(HasStr(ids.a[i], "external-id-type")
                    /\ ids.a[i].f["external-id-type"].s = <<"doi">>)

(* The publication date, if usable, has the shape of section 6. *)
DateWellFormed(w) ==
    /\ HasObj(w, "publication-date")
    /\ HasObj(w.f["publication-date"], "year")
    /\ "value" \in DOMAIN w.f["publication-date"].f["year"].f
    /\ w.f["publication-date"].f["year"].f["value"].k \in {"str", "num"}

(* external-ids, if it lists entries, has the shape of section 6. *)
IdsWellFormed(w) ==
    /\ HasObj(w, "external-ids")
    /\ LET ids == DictGet(w.f["external-ids"], "external-id", JArr(<<>>)) IN
       ids.k = "arr" /\ \A i \in DOMAIN ids.a : ids.a[i].k = "obj"

(* C10: an entry with an accepted type and a non-empty title always yields *)
(* a record: a date that is missing, null or unparseable yields no year,   *)
(* and an external-ids field that is missing, null or without an entry     *)
(* typed doi yields no identifier.  Stated for the entries whose two       *)
(* optional fields are each of a shape the claim lists or well formed.     *)
C10_OptionalFieldsNeverDrop ==
    (/\ Extracted /\ TypeAccepted(work) /\ TitlePresent(work)
     /\ DateUnusable(work) \/ DateWellFormed(work)
     /\ NoDoiEntry(work) \/ IdsWellFormed(work))
    => /\ pub_info # None
       /\ DateUnusable(work) => pub_info[1].year = None
       /\ NoDoiEntry(work) => pub_info[1].doi = JNull

=============================================================================
